---------------------------- MODULE Spec2Model ----------------------------
(***************************************************************************)
(* Cover resolution and caching pipeline of covergen                       *)
(* (src/covergen/cover_fetcher.py, with Book from csv_parser.py and        *)
(* cache_add from cli.py).                                                 *)
(*                                                                         *)
(* Strings are sequences of one-character strings; None and the empty      *)
(* string are both the empty sequence (the code only tests truthiness).    *)
(* An image is a record of what the code reads of it: whether its header   *)
(* decodes (Image.open), its size, whether its pixel data loads, the       *)
(* number of distinct quantized colours among the sampled pixels, its      *)
(* length in bytes, and (history only) whether the bytes lay in the cache   *)
(* before the run ("cache"), came from a source ("net") or were given to   *)
(* cache-add ("add").                                                      *)
(*                                                                         *)
(* Specifications:                                                         *)
(*   Spec, FairSpec  fetch_covers_for_books on a batch of books            *)
(*   KeySpec         sanitize_filename and _get_cache_key by themselves    *)
(*   ClientSpec      _fetch_from_open_library and try_search by themselves *)
(*   SourceSpec      a batch, or a source client by itself                 *)
(*   AddSpec         cache-add for a book, then a run on that book         *)
(***************************************************************************)
EXTENDS Integers, Sequences, FiniteSets, TLC

(* ------------------------------ bounds -------------------------------- *)

\* longest batch handed to fetch_covers_for_books
MaxBooks == 2
\* largest max_workers tried besides the default
MaxWorkers == 1
\* longest list of items in the answer try_search is applied to by itself
MaxItems == 6
\* longest title sanitize_filename is applied to by itself
MaxTitleLen == 3
\* largest max_length it is given
MaxLength == 2

(* ------------------------- program constants -------------------------- *)

MinSize == 200
MinColors == 15
MinBytes == 1000
MaxResults == 5
KeyMaxLength == 50
DefaultMaxLength == 60
DefaultMaxWorkers == 5

(* ------------------------------ strings ------------------------------- *)

UnsafeChars == {"/", "\\", ":", "*", "?", "\"", "<", ">", "|"}
Whitespace == {" ", "\t"}

UpperCase ==
    <<"A", "B", "C", "D", "E", "F", "G", "H", "I", "J", "K", "L", "M", "N",
      "O", "P", "Q", "R", "S", "T", "U", "V", "W", "X", "Y", "Z">>
LowerCase ==
    <<"a", "b", "c", "d", "e", "f", "g", "h", "i", "j", "k", "l", "m", "n",
      "o", "p", "q", "r", "s", "t", "u", "v", "w", "x", "y", "z">>

\* str.lower() on one character
Lower(c) ==
    IF \E i \in 1..Len(UpperCase) : UpperCase[i] = c
    THEN LowerCase[CHOOSE i \in 1..Len(UpperCase) : UpperCase[i] = c]
    ELSE c

RECURSIVE CollapseRuns(_, _, _)
\* re.sub(r'[set]+', repl, s): every maximal run of characters of `set`
\* becomes one `repl`
CollapseRuns(s, set, repl) ==
    IF s = <<>> THEN <<>>
    ELSE IF Head(s) \in set
         THEN IF Len(s) > 1 /\ s[2] \in set
              THEN CollapseRuns(Tail(s), set, repl)
              ELSE <<repl>> \o CollapseRuns(Tail(s), set, repl)
         ELSE <<Head(s)>> \o CollapseRuns(Tail(s), set, repl)

RECURSIVE LStrip(_, _)
LStrip(s, set) ==
    IF s # <<>> /\ Head(s) \in set THEN LStrip(Tail(s), set) ELSE s

RECURSIVE RStrip(_, _)
RStrip(s, set) ==
    IF s # <<>> /\ s[Len(s)] \in set
    THEN RStrip(SubSeq(s, 1, Len(s) - 1), set)
    ELSE s

Strip(s, set) == RStrip(LStrip(s, set), set)

\* mutant: the cut is not followed by rstrip('-')
sanitize_filename_no_rstrip(title, max_length) ==
    LET removed   == SelectSeq(title, LAMBDA c : c \notin UnsafeChars)
        hyphened  == CollapseRuns(removed, Whitespace, "-")
        collapsed == CollapseRuns(hyphened, {"-"}, "-")
        stripped  == Strip(collapsed, {"-"})
        lowered   == [i \in 1..Len(stripped) |-> Lower(stripped[i])]
    IN  IF Len(lowered) > max_length
        THEN SubSeq(lowered, 1, max_length)
        ELSE lowered

sanitize_filename(title, max_length) ==
    LET removed   == SelectSeq(title, LAMBDA c : c \notin UnsafeChars)
        hyphened  == CollapseRuns(removed, Whitespace, "-")
        collapsed == CollapseRuns(hyphened, {"-"}, "-")
        stripped  == Strip(collapsed, {"-"})
        lowered   == [i \in 1..Len(stripped) |-> Lower(stripped[i])]
    IN  IF Len(lowered) > max_length
        THEN RStrip(SubSeq(lowered, 1, max_length), {"-"})
        ELSE lowered

Rep(c, n) == [i \in 1..n |-> c]

\* the titles, identifiers and authors _get_cache_key is applied to
Gatsby ==
    <<"T", "h", "e", " ", "G", "r", "e", "a", "t", " ",
      "G", "a", "t", "s", "b", "y">>
GatsbyIsbn ==
    <<"9", "7", "8", "0", "7", "4", "3", "2", "7", "3", "5", "6", "5">>
\* sanitized, 51, 50 and 51 characters long
LongTitle == Rep("a", KeyMaxLength - 1) \o <<" ", "b">>
Exact50 == Rep("a", KeyMaxLength - 2) \o <<" ", "B">>
LongWord == Rep("A", KeyMaxLength + 1)
KeyTitles ==
    { <<>>, <<"A", " ", "b">>, <<"a", "-", "-", "B", "?">>, Gatsby,
      LongTitle, Exact50, LongWord }
KeyIsbns == { <<>>, <<"9">>, GatsbyIsbn }
KeyAuthors == { <<>>, <<"x">>, <<"y">> }

\* hashlib.md5(key.encode()).hexdigest() of every "{title}-{author}" above:
\* <<key, digest>>
Md5Table ==
    {
       << <<>> \o <<"-">> \o <<>>,
          <<"3", "3", "6", "d", "5", "e", "b", "c", "5", "4", "3", "6", "5",
          "3", "4", "e", "6", "1", "d", "1", "6", "e", "6", "3", "d", "d",
          "f", "c", "a", "3", "2", "7">> >>,
       << <<>> \o <<"-">> \o <<"x">>,
          <<"d", "2", "5", "c", "1", "8", "6", "e", "3", "f", "3", "0", "9",
          "6", "a", "9", "f", "f", "4", "a", "9", "1", "8", "f", "7", "b",
          "3", "1", "4", "1", "d", "4">> >>,
       << <<>> \o <<"-">> \o <<"y">>,
          <<"d", "7", "4", "3", "4", "3", "f", "b", "2", "b", "f", "8", "b",
          "9", "7", "8", "0", "3", "5", "4", "2", "5", "c", "b", "6", "2",
          "8", "5", "9", "f", "b", "b">> >>,
       << <<"A", " ", "b">> \o <<"-">> \o <<>>,
          <<"f", "9", "5", "9", "3", "d", "9", "d", "3", "b", "5", "5", "c",
          "e", "f", "7", "1", "e", "b", "b", "7", "b", "5", "5", "4", "8",
          "f", "4", "c", "5", "3", "4">> >>,
       << <<"A", " ", "b">> \o <<"-">> \o <<"x">>,
          <<"4", "4", "4", "c", "7", "6", "d", "9", "7", "2", "b", "a", "4",
          "f", "0", "5", "4", "b", "e", "f", "4", "b", "9", "0", "5", "3",
          "e", "d", "c", "f", "4", "4">> >>,
       << <<"A", " ", "b">> \o <<"-">> \o <<"y">>,
          <<"6", "d", "a", "7", "5", "c", "8", "6", "e", "e", "c", "b", "5",
          "4", "1", "0", "9", "1", "4", "6", "9", "a", "9", "e", "d", "5",
          "a", "6", "7", "d", "7", "4">> >>,
       << <<"a", "-", "-", "B", "?">> \o <<"-">> \o <<>>,
          <<"f", "8", "a", "3", "c", "6", "f", "e", "c", "3", "4", "b", "2",
          "2", "e", "2", "9", "1", "a", "9", "a", "3", "d", "9", "9", "a",
          "f", "9", "3", "0", "7", "0">> >>,
       << <<"a", "-", "-", "B", "?">> \o <<"-">> \o <<"x">>,
          <<"e", "e", "9", "5", "a", "4", "9", "7", "4", "d", "9", "2", "3",
          "3", "3", "e", "0", "8", "1", "a", "3", "d", "0", "1", "d", "f",
          "4", "7", "f", "e", "4", "4">> >>,
       << <<"a", "-", "-", "B", "?">> \o <<"-">> \o <<"y">>,
          <<"9", "f", "6", "d", "9", "2", "9", "e", "8", "f", "2", "5", "d",
          "1", "b", "9", "0", "f", "a", "0", "5", "7", "0", "6", "f", "0",
          "e", "9", "2", "1", "9", "9">> >>,
       << Gatsby \o <<"-">> \o <<>>,
          <<"e", "4", "6", "8", "3", "d", "0", "9", "c", "f", "1", "f", "1",
          "5", "9", "7", "7", "9", "4", "5", "8", "7", "3", "6", "b", "7",
          "6", "1", "8", "3", "c", "f">> >>,
       << Gatsby \o <<"-">> \o <<"x">>,
          <<"d", "4", "c", "7", "0", "c", "3", "e", "d", "b", "a", "8", "b",
          "7", "2", "3", "b", "b", "4", "2", "3", "0", "7", "0", "a", "6",
          "a", "b", "d", "5", "e", "4">> >>,
       << Gatsby \o <<"-">> \o <<"y">>,
          <<"f", "6", "3", "a", "e", "8", "8", "e", "0", "f", "2", "2", "9",
          "6", "b", "d", "9", "9", "f", "a", "5", "d", "b", "8", "d", "b",
          "8", "f", "8", "4", "2", "6">> >>,
       << LongTitle \o <<"-">> \o <<>>,
          <<"9", "8", "9", "3", "7", "b", "f", "d", "4", "c", "2", "a", "e",
          "1", "0", "b", "a", "b", "2", "3", "7", "8", "9", "2", "e", "c",
          "0", "d", "8", "c", "a", "2">> >>,
       << LongTitle \o <<"-">> \o <<"x">>,
          <<"0", "3", "1", "c", "1", "7", "6", "a", "c", "0", "f", "3", "e",
          "6", "4", "1", "d", "0", "d", "4", "2", "d", "3", "9", "4", "3",
          "6", "b", "1", "0", "8", "1">> >>,
       << LongTitle \o <<"-">> \o <<"y">>,
          <<"d", "5", "a", "c", "8", "6", "f", "f", "3", "b", "f", "6", "6",
          "a", "2", "e", "3", "2", "6", "e", "c", "e", "1", "3", "4", "6",
          "f", "e", "7", "9", "2", "b">> >>,
       << Exact50 \o <<"-">> \o <<>>,
          <<"0", "4", "7", "f", "3", "b", "e", "f", "1", "1", "8", "c", "c",
          "b", "d", "3", "b", "e", "6", "1", "4", "7", "1", "e", "7", "f",
          "5", "8", "3", "e", "9", "a">> >>,
       << Exact50 \o <<"-">> \o <<"x">>,
          <<"6", "d", "a", "e", "f", "1", "a", "d", "1", "a", "4", "6", "e",
          "6", "8", "d", "6", "1", "b", "2", "c", "d", "3", "5", "6", "1",
          "4", "d", "4", "0", "d", "5">> >>,
       << Exact50 \o <<"-">> \o <<"y">>,
          <<"a", "e", "7", "f", "7", "0", "a", "b", "9", "1", "b", "0", "b",
          "0", "a", "f", "5", "b", "7", "8", "7", "7", "0", "7", "4", "f",
          "b", "9", "b", "4", "d", "8">> >>,
       << LongWord \o <<"-">> \o <<>>,
          <<"1", "f", "7", "6", "7", "6", "0", "e", "8", "1", "e", "e", "0",
          "8", "0", "f", "4", "0", "1", "e", "a", "0", "2", "8", "b", "1",
          "f", "4", "e", "3", "f", "c">> >>,
       << LongWord \o <<"-">> \o <<"x">>,
          <<"4", "b", "d", "9", "0", "8", "e", "1", "d", "f", "9", "f", "0",
          "2", "a", "2", "8", "e", "9", "6", "3", "b", "6", "e", "8", "a",
          "5", "d", "1", "a", "4", "9">> >>,
       << LongWord \o <<"-">> \o <<"y">>,
          <<"2", "5", "8", "0", "b", "6", "c", "4", "7", "f", "3", "1", "2",
          "7", "4", "2", "8", "9", "5", "0", "f", "a", "5", "3", "c", "f",
          "7", "6", "f", "1", "f", "f">> >>
    }

Md5Hex(s) == (CHOOSE row \in Md5Table : row[1] = s)[2]

\* hashlib.md5(key.encode()).hexdigest()[:16]
Md5Hex16(s) == SubSeq(Md5Hex(s), 1, 16)

\* mutant: the author is part of the key of a book with an identifier
get_cache_key_with_author(isbn, title, author) ==
    IF isbn # <<>>
    THEN IF title # <<>>
         THEN isbn \o <<"-">> \o
              sanitize_filename(title \o <<" ">> \o author, KeyMaxLength)
         ELSE isbn
    ELSE Md5Hex16(title \o <<"-">> \o author)

\* mutant: sanitize_filename is called with its default max_length
get_cache_key_default_length(isbn, title, author) ==
    IF isbn # <<>>
    THEN IF title # <<>>
         THEN isbn \o <<"-">> \o sanitize_filename(title, DefaultMaxLength)
         ELSE isbn
    ELSE Md5Hex16(title \o <<"-">> \o author)

get_cache_key(isbn, title, author) ==
    IF isbn # <<>>
    THEN IF title # <<>>
         THEN isbn \o <<"-">> \o sanitize_filename(title, KeyMaxLength)
         ELSE isbn
    ELSE Md5Hex16(title \o <<"-">> \o author)

(* ------------------------------- books -------------------------------- *)

clean_isbn(value) ==
    IF value = <<>> THEN <<>>
    ELSE Strip(Strip(Strip(value, Whitespace), {"=", "\""}), {"\""})

best_isbn(book) ==
    LET isbn13 == clean_isbn(book.isbn13)
        isbn   == clean_isbn(book.isbn)
    IN  IF isbn13 # <<>> THEN isbn13 ELSE isbn

Book(title, author, isbn, isbn13) ==
    [title |-> title, author |-> author, isbn |-> isbn, isbn13 |-> isbn13]

\* Goodreads wraps ISBNs as ="..."
Wrapped(s) == <<"=", "\"">> \o s \o <<"\"">>

\* The books a batch is drawn from: identifier and title; the same
\* identifier with a title that sanitizes to the same text (same cache key,
\* other author); neither identifier nor title; title only; identifier only.
Catalog ==
    << Book(<<"A", " ", "b">>, <<"x">>, <<>>, Wrapped(<<"9">>)),
       Book(<<"a", "-", "-", "B", "?">>, <<"y">>, Wrapped(<<"9">>), Wrapped(<<>>)),
       Book(<<>>, <<>>, <<>>, <<>>),
       Book(<<"A", " ", "b">>, <<"x">>, Wrapped(<<>>), Wrapped(<<>>)),
       Book(<<>>, <<"x">>, <<"9">>, <<>>) >>

\* A batch is a run of consecutive catalog books, at most MaxBooks long.
Batches ==
    { SubSeq(Catalog, i, i + n - 1) :
        <<i, n>> \in { p \in (1..Len(Catalog)) \X (0..MaxBooks) :
                          p[1] + p[2] - 1 <= Len(Catalog) } }

(* ------------------------------- images ------------------------------- *)

Image(decodes, w, h, loads, colors, len, src) ==
    [decodes |-> decodes, w |-> w, h |-> h, loads |-> loads,
     colors |-> colors, len |-> len, src |-> src]

\* no file at a path / image_data = None
Absent == Image(FALSE, 0, 0, FALSE, 0, 0, "absent")
NoBytes == Absent

Good(src)      == Image(TRUE, MinSize, MinSize, TRUE, MinColors, MinBytes + 1, src)
Narrow(src)    == [Good(src) EXCEPT !.w = MinSize - 1]
Short(src)     == [Good(src) EXCEPT !.h = MinSize - 1]
Flat(src)      == [Good(src) EXCEPT !.colors = MinColors - 1]
Broken(src)    == [Good(src) EXCEPT !.decodes = FALSE, !.loads = FALSE]
Truncated(src) == [Good(src) EXCEPT !.loads = FALSE]
Tiny(src)      == [Good(src) EXCEPT !.len = MinBytes]

\* files that may lie in the cache before the run
CachedFiles ==
    { Good("cache"), Narrow("cache"), Flat("cache"), Broken("cache"),
      Truncated("cache") }

\* bodies an image URL of source `src` may deliver
RemoteImages(src) ==
    { Good(src), Narrow(src), Short(src), Flat(src), Broken(src),
      Truncated(src), Tiny(src) }

\* requests.get + raise_for_status on an image URL: a body, or an error
\* (connection error, timeout, HTTP status >= 400)
Replies(src) ==
    { [ok |-> TRUE, body |-> b] : b \in RemoteImages(src) } \cup
    { [ok |-> FALSE, body |-> Absent] }

is_placeholder_image(img) == img.colors < MinColors

too_small(img, min_size) == img.w < min_size \/ img.h < min_size

\* mutant: the placeholder threshold off by one
cache_verdict_off_by_one(img) ==
    IF ~img.decodes THEN "evict"
    ELSE IF too_small(img, MinSize) THEN "evict"
    ELSE IF ~img.loads THEN "evict"
    ELSE IF img.colors <= MinColors THEN "evict"
    ELSE "hit"

\* fetch_cover's check of an existing cache file: "hit" or "evict"
cache_verdict(img) ==
    IF ~img.decodes THEN "evict"
    ELSE IF too_small(img, MinSize) THEN "evict"
    ELSE IF ~img.loads THEN "evict"
    ELSE IF is_placeholder_image(img) THEN "evict"
    ELSE "hit"

\* mutant: the written file is checked for size only
fresh_verdict_size_only(img) ==
    IF ~img.decodes THEN "reject"
    ELSE IF too_small(img, MinSize) THEN "reject"
    ELSE "keep"

\* fetch_cover's check of the file it has just written: "keep" or "reject"
fresh_verdict(img) ==
    IF ~img.decodes THEN "reject"
    ELSE IF too_small(img, MinSize) THEN "reject"
    ELSE IF ~img.loads THEN "reject"
    ELSE IF is_placeholder_image(img) THEN "reject"
    ELSE "keep"

(* --------------------------- source clients --------------------------- *)

\* What Open Library answers: the Books API call fails, has no entry for
\* the ISBN, no cover, no usable cover URL, or names a cover URL whose
\* fetch gives `reply`.
OLResponses ==
    { [api |-> a, reply |-> [ok |-> FALSE, body |-> Absent]] :
        a \in {"error", "nobook", "nocover", "nourl"} } \cup
    { [api |-> "ok", reply |-> r] : r \in Replies("net") }

\* mutant: the body is returned without Image.open
fetch_from_open_library_unopened(resp, min_size) ==
    IF resp.api # "ok" THEN NoBytes
    ELSE IF ~resp.reply.ok THEN NoBytes
    ELSE IF resp.reply.body.len > MinBytes
         THEN resp.reply.body
         ELSE NoBytes

fetch_from_open_library(resp, min_size) ==
    IF resp.api # "ok" THEN NoBytes
    ELSE IF ~resp.reply.ok THEN NoBytes
    ELSE IF resp.reply.body.len > MinBytes
         THEN IF ~resp.reply.body.decodes THEN NoBytes
              ELSE IF too_small(resp.reply.body, min_size) THEN NoBytes
              ELSE resp.reply.body
         ELSE NoBytes

\* the reply to a request that is not made
NoReply == [ok |-> FALSE, body |-> Absent]

\* one item of a search result: with or without an image link; or
\* malformed (the item, its volumeInfo or its imageLinks is no JSON object,
\* so that .get raises)
Items(src) ==
    { [object |-> TRUE, link |-> TRUE, reply |-> r] : r \in Replies(src) } \cup
    { [object |-> TRUE, link |-> FALSE, reply |-> NoReply],
      [object |-> FALSE, link |-> FALSE, reply |-> NoReply] }

GoodItem(src) ==
    [object |-> TRUE, link |-> TRUE, reply |-> [ok |-> TRUE, body |-> Good(src)]]

\* What Google Books answers to one search: an error, or totalItems and
\* the items of the first page: none, any single item, or any item
\* followed by a real cover.
GBResponses(src) ==
    { [ok |-> FALSE, totalItems |-> 0, items |-> <<>>] } \cup
    { [ok |-> TRUE, totalItems |-> t, items |-> its] :
        t \in {0, 1},
        its \in { <<>> } \cup { <<i>> : i \in Items(src) } \cup
                { << i, GoodItem(src) >> : i \in Items(src) } }

\* one round of the loop reaches `return img_response.content`
passes(item, min_size) ==
    LET img == item.reply.body
    IN  /\ item.link
        /\ item.reply.ok
        /\ img.len > MinBytes
        /\ img.decodes
        /\ ~too_small(img, min_size)
        /\ img.loads
        /\ ~is_placeholder_image(img)

RECURSIVE first_valid(_, _)
\* the loop over data["items"][:5]
first_valid(items, min_size) ==
    IF items = <<>> THEN NoBytes
    ELSE IF ~Head(items).object THEN NoBytes
    ELSE IF passes(Head(items), min_size) THEN Head(items).reply.body
    ELSE first_valid(Tail(items), min_size)

RECURSIVE image_requests(_, _, _)
\* history: the items, by index from i on, whose image URL the loop requests
image_requests(items, i, min_size) ==
    IF items = <<>> THEN <<>>
    ELSE IF ~Head(items).object THEN <<>>
    ELSE IF ~Head(items).link
         THEN image_requests(Tail(items), i + 1, min_size)
    ELSE IF passes(Head(items), min_size) THEN <<i>>
    ELSE <<i>> \o image_requests(Tail(items), i + 1, min_size)

\* mutant: the slice is [:6]
try_search_six(resp, min_size) ==
    IF ~resp.ok THEN NoBytes
    ELSE IF resp.totalItems = 0 THEN NoBytes
    ELSE first_valid(SubSeq(resp.items, 1,
                            IF Len(resp.items) < MaxResults + 1
                            THEN Len(resp.items) ELSE MaxResults + 1),
                     min_size)

try_search(resp, min_size) ==
    IF ~resp.ok THEN NoBytes
    ELSE IF resp.totalItems = 0 THEN NoBytes
    ELSE first_valid(SubSeq(resp.items, 1,
                            IF Len(resp.items) < MaxResults
                            THEN Len(resp.items) ELSE MaxResults),
                     min_size)

\* history: the image requests try_search makes
try_search_requests(resp, min_size) ==
    IF ~resp.ok THEN <<>>
    ELSE IF resp.totalItems = 0 THEN <<>>
    ELSE image_requests(SubSeq(resp.items, 1,
                               IF Len(resp.items) < MaxResults
                               THEN Len(resp.items) ELSE MaxResults),
                        1, min_size)

\* one lookup and whether it returned bytes (history)
Lookup(name, data) == [lookup |-> name, found |-> data # NoBytes]

\* _fetch_from_google_books: the searches it makes, in order ...
google_books_searches(isbn, title, byIsbn, byTitle, min_size) ==
    (IF isbn # <<>>
     THEN << Lookup("GB_ISBN", try_search(byIsbn, min_size)) >> ELSE <<>>) \o
    (IF /\ (isbn = <<>> \/ try_search(byIsbn, min_size) = NoBytes)
        /\ title # <<>>
     THEN << Lookup("GB_TITLE", try_search(byTitle, min_size)) >> ELSE <<>>)

\* ... and what it returns
fetch_from_google_books(isbn, title, byIsbn, byTitle, min_size) ==
    IF isbn # <<>> /\ try_search(byIsbn, min_size) # NoBytes
    THEN try_search(byIsbn, min_size)
    ELSE IF title # <<>> THEN try_search(byTitle, min_size)
    ELSE NoBytes

\* the search a call does not make (title None, or isbn None)
NoSearch == [ok |-> FALSE, totalItems |-> 0, items |-> <<>>]

(* ------------------------------- state -------------------------------- *)

VARIABLES
    books,        \* the batch (fixed by Init)
    max_workers,  \* size of the thread pool
    has_callback, \* whether progress_callback is supplied
    fs,           \* the cache directory: cache key -> file (or Absent)
    mainPc,       \* fetch_covers_for_books: "loop" or "returned" ("idle":
                  \* it is not called, or not yet)
    submitted,    \* number of executor.submit calls made
    results,      \* the list being built: <<[book, path], ...>>
    completed,    \* the counter `completed`
    progress,     \* history: the calls of progress_callback
    tpc,          \* per task: position in fetch_cover
    image_data,   \* per task: the local image_data (until it is written)
    future,       \* per task: state of its Future
    calls,        \* history, per task: the lookups made, in order
    cached,       \* history, per task: what the cache check found
    cmd,          \* the call made besides the batch (cache-add, or a
                  \* function applied by itself): its arguments
    out           \* what that call has returned so far

vars == << books, max_workers, has_callback, fs, mainPc, submitted, results,
           completed, progress, tpc, image_data, future, calls, cached,
           cmd, out >>

N == Len(books)
Tasks == 1..N

\* book.best_isbn and the cache key of every catalog book (tabulated)
CatalogBooks == { Catalog[k] : k \in 1..Len(Catalog) }
BestIsbn == [b \in CatalogBooks |-> best_isbn(b)]
CacheKey == [b \in CatalogBooks |-> get_cache_key(best_isbn(b), b.title, b.author)]

\* the arguments of task t's fetch_cover call, and its cache_key
Isbn(t) == BestIsbn[books[t]]
Title(t) == books[t].title
Author(t) == books[t].author
Key(t) == CacheKey[books[t]]

\* a file of the cache directory that belongs to no book
OtherKey == <<"o">>
CatalogKeys == { CacheKey[b] : b \in CatalogBooks }
AllKeys == CatalogKeys \cup {OtherKey}

\* the cache keys of a batch
BatchKeys(batch) == { CacheKey[batch[t]] : t \in 1..Len(batch) }

\* no call besides the batch
NoCmd == [fn |-> "none"]

NoPath == <<>>
Pending == [state |-> "pending", path |-> NoPath]
Returned(path) == [state |-> "returned", path |-> path]
Raised == [state |-> "raised", path |-> NoPath]

Running(t) == tpc[t] \notin {"unsubmitted", "queued", "done"}
NumRunning == Cardinality({ t \in Tasks : Running(t) })

\* The call is made with a callback (as cli.py does) on every batch, and
\* without one on the batches shorter than MaxBooks.
BatchInit ==
    /\ books \in Batches
    /\ max_workers \in (1..MaxWorkers) \cup {DefaultMaxWorkers}
    /\ has_callback \in BOOLEAN
    /\ (~has_callback => Len(books) < MaxBooks)
    /\ \E before \in [BatchKeys(books) -> CachedFiles \cup {Absent}] :
          fs = [k \in AllKeys |->
                  IF k \in BatchKeys(books) THEN before[k]
                  ELSE IF k = OtherKey THEN Good("cache")
                  ELSE Absent]
    /\ submitted = 0
    /\ results = <<>>
    /\ completed = 0
    /\ progress = <<>>
    /\ tpc = [t \in 1..Len(books) |-> "unsubmitted"]
    /\ image_data = [t \in 1..Len(books) |-> NoBytes]
    /\ future = [t \in 1..Len(books) |-> Pending]
    /\ calls = [t \in 1..Len(books) |-> <<>>]
    /\ cached = [t \in 1..Len(books) |-> "unchecked"]

Init ==
    /\ BatchInit
    /\ mainPc = "loop"
    /\ cmd = NoCmd
    /\ out = <<>>

(* ----------------------------- fetch_cover ---------------------------- *)

\* where fetch_cover goes once the cache gave nothing
first_source(isbn, title) ==
    IF isbn # <<>> THEN "open_library"
    ELSE IF title # <<>> THEN "google_title"
    ELSE "none"

\* mutant: the search by identifier is skipped
after_open_library_skip(data) ==
    IF data = NoBytes THEN "google_title" ELSE "write"

\* ... after the identifier-keyed lookup returned `data`
after_open_library(data) ==
    IF data = NoBytes THEN "google_isbn" ELSE "write"

\* ... after the search by identifier returned `data`
after_google_isbn(data, title) ==
    IF data # NoBytes THEN "write"
    ELSE IF title # <<>> THEN "google_title"
    ELSE "none"

\* ... after the search by title and author returned `data`
after_google_title(data) ==
    IF data = NoBytes THEN "none" ELSE "write"

\* mutant: `return cache_path` where the code returns None
Goto_stale_path(t, next) ==
    IF next = "none"
    THEN /\ tpc' = [tpc EXCEPT ![t] = "done"]
         /\ future' = [future EXCEPT ![t] =
                          Returned(Key(t))]
    ELSE /\ tpc' = [tpc EXCEPT ![t] = next]
         /\ UNCHANGED future

\* take the step to `next`; "none" is `return None`
Goto(t, next) ==
    IF next = "none"
    THEN /\ tpc' = [tpc EXCEPT ![t] = "done"]
         /\ future' = [future EXCEPT ![t] = Returned(NoPath)]
    ELSE /\ tpc' = [tpc EXCEPT ![t] = next]
         /\ UNCHANGED future

\* what no step of the batch changes
CallVars == << books, max_workers, has_callback, cmd, out >>

MainVars == << CallVars, mainPc, submitted, results, completed, progress >>

\* mutant: a pool that grows with the batch
worker_free_unbounded == TRUE

\* ThreadPoolExecutor(max_workers=max_workers): a worker thread is idle
worker_free == NumRunning < max_workers

\* A worker thread takes the oldest queued task and runs fetch_cover up to
\* the check of the cache file (exists, Image.open, size, placeholder).
T_Start(t) ==
    /\ tpc[t] = "queued"
    /\ \A u \in Tasks : u < t => tpc[u] # "queued"
    /\ worker_free
    /\ IF fs[Key(t)] = Absent
       THEN /\ cached' = [cached EXCEPT ![t] = "miss"]
            /\ Goto(t, first_source(Isbn(t), Title(t)))
       ELSE IF cache_verdict(fs[Key(t)]) = "hit"
       THEN /\ cached' = [cached EXCEPT ![t] = "hit"]
            /\ tpc' = [tpc EXCEPT ![t] = "done"]
            /\ future' = [future EXCEPT ![t] = Returned(Key(t))]
       ELSE /\ cached' = [cached EXCEPT ![t] = "invalid"]
            /\ tpc' = [tpc EXCEPT ![t] = "evict"]
            /\ UNCHANGED future
    /\ UNCHANGED << MainVars, fs, image_data, calls >>

\* mutant: the invalid entry is not unlinked
T_Evict_keep(t) ==
    /\ tpc[t] = "evict"
    /\ Goto(t, first_source(Isbn(t), Title(t)))
    /\ UNCHANGED << MainVars, fs, image_data, calls, cached >>

\* cache_path.unlink() of an invalid entry
T_Evict(t) ==
    /\ tpc[t] = "evict"
    /\ fs' = [fs EXCEPT ![Key(t)] = Absent]
    /\ Goto(t, first_source(Isbn(t), Title(t)))
    /\ UNCHANGED << MainVars, image_data, calls, cached >>

T_OpenLibrary(t) ==
    /\ tpc[t] = "open_library"
    /\ \E resp \in OLResponses :
          LET data == fetch_from_open_library(resp, MinSize)
          IN  /\ image_data' = [image_data EXCEPT ![t] = data]
              /\ calls' = [calls EXCEPT ![t] = Append(@, Lookup("OL", data))]
              /\ Goto(t, after_open_library(data))
    /\ UNCHANGED << MainVars, fs, cached >>

T_GoogleIsbn(t) ==
    /\ tpc[t] = "google_isbn"
    /\ \E resp \in GBResponses("net") :
          LET data == fetch_from_google_books(Isbn(t), <<>>, resp, NoSearch, MinSize)
          IN  /\ image_data' = [image_data EXCEPT ![t] = data]
              /\ calls' = [calls EXCEPT ![t] =
                             @ \o google_books_searches(Isbn(t), <<>>, resp, NoSearch, MinSize)]
              /\ Goto(t, after_google_isbn(data, Title(t)))
    /\ UNCHANGED << MainVars, fs, cached >>

\* mutant: the last call of the chain passes the identifier again
T_GoogleTitle_with_isbn(t) ==
    /\ tpc[t] = "google_title"
    /\ \E byIsbn \in GBResponses("net"), resp \in GBResponses("net") :
          LET data == fetch_from_google_books(Isbn(t), Title(t), byIsbn, resp, MinSize)
          IN  /\ image_data' = [image_data EXCEPT ![t] = data]
              /\ calls' = [calls EXCEPT ![t] =
                             @ \o google_books_searches(Isbn(t), Title(t), byIsbn, resp, MinSize)]
              /\ Goto(t, after_google_title(data))
    /\ UNCHANGED << MainVars, fs, cached >>

T_GoogleTitle(t) ==
    /\ tpc[t] = "google_title"
    /\ \E resp \in GBResponses("net") :
          LET data == fetch_from_google_books(<<>>, Title(t), NoSearch, resp, MinSize)
          IN  /\ image_data' = [image_data EXCEPT ![t] = data]
              /\ calls' = [calls EXCEPT ![t] =
                             @ \o google_books_searches(<<>>, Title(t), NoSearch, resp, MinSize)]
              /\ Goto(t, after_google_title(data))
    /\ UNCHANGED << MainVars, fs, cached >>

\* cache_path.write_bytes(image_data): it succeeds, or raises OSError before
\* anything was written, or raises after the file was created and cut short
T_Write(t) ==
    /\ tpc[t] = "write"
    /\ \/ /\ fs' = [fs EXCEPT ![Key(t)] = image_data[t]]
          /\ tpc' = [tpc EXCEPT ![t] = "verify"]
          /\ UNCHANGED future
       \/ /\ UNCHANGED fs
          /\ tpc' = [tpc EXCEPT ![t] = "done"]
          /\ future' = [future EXCEPT ![t] = Raised]
       \/ /\ fs' = [fs EXCEPT ![Key(t)] = Broken(image_data[t].src)]
          /\ tpc' = [tpc EXCEPT ![t] = "done"]
          /\ future' = [future EXCEPT ![t] = Raised]
    /\ image_data' = [image_data EXCEPT ![t] = NoBytes]
    /\ UNCHANGED << MainVars, calls, cached >>

\* the check of the file just written
T_Verify(t) ==
    /\ tpc[t] = "verify"
    /\ IF fresh_verdict(fs[Key(t)]) = "keep"
       THEN /\ tpc' = [tpc EXCEPT ![t] = "done"]
            /\ future' = [future EXCEPT ![t] = Returned(Key(t))]
       ELSE /\ tpc' = [tpc EXCEPT ![t] = "reject"]
            /\ UNCHANGED future
    /\ UNCHANGED << MainVars, fs, image_data, calls, cached >>

\* mutant: return None without the unlink
T_Reject_keep_file(t) ==
    /\ tpc[t] = "reject"
    /\ tpc' = [tpc EXCEPT ![t] = "done"]
    /\ future' = [future EXCEPT ![t] = Returned(NoPath)]
    /\ UNCHANGED << MainVars, fs, image_data, calls, cached >>

\* cache_path.unlink(); return None
T_Reject(t) ==
    /\ tpc[t] = "reject"
    /\ fs' = [fs EXCEPT ![Key(t)] = Absent]
    /\ tpc' = [tpc EXCEPT ![t] = "done"]
    /\ future' = [future EXCEPT ![t] = Returned(NoPath)]
    /\ UNCHANGED << MainVars, image_data, calls, cached >>

(* ----------------------- fetch_covers_for_books ----------------------- *)

TaskVars == << image_data, future, calls, cached >>

\* executor.submit(fetch_cover, ...) for the next book
M_Submit ==
    /\ mainPc = "loop"
    /\ submitted < N
    /\ submitted' = submitted + 1
    /\ tpc' = [tpc EXCEPT ![submitted + 1] = "queued"]
    /\ UNCHANGED << CallVars, fs, mainPc, results,
                    completed, progress, TaskVars >>

Recorded == { results[i].book : i \in 1..Len(results) }

\* the outcome recorded for a finished future
outcome(t, fut) ==
    IF fut.state = "returned"
    THEN [book |-> t, path |-> fut.path]
    ELSE [book |-> t, path |-> NoPath]

\* mutant: the callback runs before `completed += 1`
collect_stale_count(res, done, log, entry, total, callback) ==
    LET res2  == Append(res, entry)
    IN  << res2, done + 1,
           IF callback
           THEN Append(log, [completed |-> done, total |-> total,
                             recorded |-> Len(res2)])
           ELSE log >>

\* mutant: the callback runs before the outcome is recorded
collect_callback_first(res, done, log, entry, total, callback) ==
    << Append(res, entry), done + 1,
       IF callback
       THEN Append(log, [completed |-> done + 1, total |-> total,
                         recorded |-> Len(res)])
       ELSE log >>

\* one round of the as_completed loop: <<results, completed, progress>> after it
collect(res, done, log, entry, total, callback) ==
    LET res2  == Append(res, entry)
        done2 == done + 1
    IN  << res2, done2,
           IF callback
           THEN Append(log, [completed |-> done2, total |-> total,
                             recorded |-> Len(res2)])
           ELSE log >>

\* mutant: future.result() outside any try: a raised task ends the call
M_Collect_no_try(t) ==
    /\ mainPc = "loop"
    /\ submitted = N
    /\ tpc[t] = "done"
    /\ t \notin Recorded
    /\ IF future[t].state = "raised"
       THEN /\ mainPc' = "returned"
            /\ UNCHANGED << results, completed, progress >>
       ELSE /\ LET after == collect(results, completed, progress,
                                    outcome(t, future[t]), N, has_callback)
               IN  /\ results' = after[1]
                   /\ completed' = after[2]
                   /\ progress' = after[3]
            /\ UNCHANGED mainPc
    /\ UNCHANGED << CallVars, fs, submitted,
                    tpc, TaskVars >>

M_Collect(t) ==
    /\ mainPc = "loop"
    /\ submitted = N
    /\ tpc[t] = "done"
    /\ t \notin Recorded
    /\ LET after == collect(results, completed, progress,
                            outcome(t, future[t]), N, has_callback)
       IN  /\ results' = after[1]
           /\ completed' = after[2]
           /\ progress' = after[3]
    /\ UNCHANGED << CallVars, fs, mainPc,
                    submitted, tpc, TaskVars >>

\* mutant: return at the first collected outcome
M_Return_early ==
    /\ mainPc = "loop"
    /\ submitted = N
    /\ (N = 0 \/ results # <<>>)
    /\ mainPc' = "returned"
    /\ UNCHANGED << CallVars, fs, submitted,
                    results, completed, progress, tpc, TaskVars >>

\* as_completed is exhausted, the executor shuts down, `return results`
M_Return ==
    /\ mainPc = "loop"
    /\ submitted = N
    /\ \A t \in Tasks : t \in Recorded
    /\ mainPc' = "returned"
    /\ UNCHANGED << CallVars, fs, submitted,
                    results, completed, progress, tpc, TaskVars >>

Next ==
    \/ M_Submit
    \/ \E t \in Tasks : M_Collect(t)
    \/ M_Return
    \/ \E t \in Tasks : T_Start(t)
    \/ \E t \in Tasks : T_Evict(t)
    \/ \E t \in Tasks : T_OpenLibrary(t)
    \/ \E t \in Tasks : T_GoogleIsbn(t)
    \/ \E t \in Tasks : T_GoogleTitle(t)
    \/ \E t \in Tasks : T_Write(t)
    \/ \E t \in Tasks : T_Verify(t)
    \/ \E t \in Tasks : T_Reject(t)

Spec == Init /\ [][Next]_vars

\* A thread that can take a step is eventually scheduled, and every request
\* ends (answer, error or timeout).
FairSpec == Spec /\ WF_vars(Next)

(* --------------- sanitize_filename and _get_cache_key ---------------- *)

\* no batch is run
NoBatch ==
    /\ books = <<>>
    /\ max_workers = DefaultMaxWorkers
    /\ has_callback = FALSE
    /\ fs = [k \in AllKeys |-> Absent]
    /\ mainPc = "idle"
    /\ submitted = 0
    /\ results = <<>>
    /\ completed = 0
    /\ progress = <<>>
    /\ tpc = <<>>
    /\ image_data = <<>>
    /\ future = <<>>
    /\ calls = <<>>
    /\ cached = <<>>

BatchVars == << books, max_workers, has_callback, fs, mainPc, submitted,
               results, completed, progress, tpc, image_data, future, calls,
               cached >>

\* the titles up to n characters long, of a letter of each case, a
\* whitespace character, a hyphen and an unsafe character
TitleChars == {"A", "b", " ", "-", "?"}
Titles(n) == UNION { [1..k -> TitleChars] : k \in 0..n }

SanitizeCalls ==
    { [fn |-> "sanitize_filename", title |-> t, max_length |-> m] :
        t \in Titles(MaxTitleLen), m \in 0..MaxLength }

KeyCalls ==
    { [fn |-> "_get_cache_key", isbn |-> i, title |-> t, author |-> a] :
        i \in KeyIsbns, t \in KeyTitles, a \in KeyAuthors }

KeyInit ==
    /\ NoBatch
    /\ cmd \in SanitizeCalls \cup KeyCalls
    /\ out = <<>>

\* sanitize_filename(title, max_length)
Sanitize ==
    /\ cmd.fn = "sanitize_filename"
    /\ out = <<>>
    /\ out' = << sanitize_filename(cmd.title, cmd.max_length) >>
    /\ UNCHANGED << BatchVars, cmd >>

\* sanitize_filename applied to what it returned, with the same max_length
SanitizeAgain ==
    /\ cmd.fn = "sanitize_filename"
    /\ Len(out) = 1
    /\ out' = Append(out, sanitize_filename(out[1], cmd.max_length))
    /\ UNCHANGED << BatchVars, cmd >>

\* _get_cache_key(isbn, title, author)
GetCacheKey ==
    /\ cmd.fn = "_get_cache_key"
    /\ out = <<>>
    /\ out' = << [author |-> cmd.author,
                  key |-> get_cache_key(cmd.isbn, cmd.title, cmd.author)] >>
    /\ UNCHANGED << BatchVars, cmd >>

\* a second call that differs in the author only
GetCacheKeyOtherAuthor ==
    /\ cmd.fn = "_get_cache_key"
    /\ Len(out) = 1
    /\ \E a \in KeyAuthors \ {cmd.author} :
          out' = Append(out, [author |-> a,
                              key |-> get_cache_key(cmd.isbn, cmd.title, a)])
    /\ UNCHANGED << BatchVars, cmd >>

KeyNext ==
    \/ Sanitize
    \/ SanitizeAgain
    \/ GetCacheKey
    \/ GetCacheKeyOtherAuthor

KeySpec == KeyInit /\ [][KeyNext]_vars

(* ------------------- the source clients by themselves ----------------- *)

\* items of a long answer: no image link, an image request that fails, a
\* placeholder, a real cover
FewItems ==
    { [object |-> TRUE, link |-> FALSE, reply |-> NoReply],
      [object |-> TRUE, link |-> TRUE, reply |-> NoReply],
      [object |-> TRUE, link |-> TRUE,
       reply |-> [ok |-> TRUE, body |-> Flat("net")]],
      GoodItem("net") }

\* the answers try_search is applied to: those of the batch model, every
\* page of two items, and every page of up to MaxItems of the items above
SearchResponses ==
    GBResponses("net") \cup
    { [ok |-> TRUE, totalItems |-> 2, items |-> <<i, j>>] :
        i \in Items("net"), j \in Items("net") } \cup
    { [ok |-> TRUE, totalItems |-> n, items |-> its] :
        <<n, its>> \in
            UNION { {k} \X [1..k -> FewItems] : k \in 1..MaxItems } }

ClientCalls ==
    { [fn |-> "_fetch_from_open_library", resp |-> r] : r \in OLResponses }
    \cup { [fn |-> "try_search", resp |-> r] : r \in SearchResponses }

ClientInit ==
    /\ NoBatch
    /\ cmd \in ClientCalls
    /\ out = <<>>

\* _fetch_from_open_library(isbn) with the default min_size
FetchFromOpenLibrary ==
    /\ cmd.fn = "_fetch_from_open_library"
    /\ out = <<>>
    /\ out' = << [data |-> fetch_from_open_library(cmd.resp, MinSize),
                  requests |-> <<>>] >>
    /\ UNCHANGED << BatchVars, cmd >>

\* try_search(search_url) with the default min_size
TrySearch ==
    /\ cmd.fn = "try_search"
    /\ out = <<>>
    /\ out' = << [data |-> try_search(cmd.resp, MinSize),
                  requests |-> try_search_requests(cmd.resp, MinSize)] >>
    /\ UNCHANGED << BatchVars, cmd >>

ClientNext ==
    \/ FetchFromOpenLibrary
    \/ TrySearch

ClientSpec == ClientInit /\ [][ClientNext]_vars

\* a batch, or a source client by itself
SourceInit == Init \/ ClientInit

SourceNext == Next \/ ClientNext

SourceSpec == SourceInit /\ [][SourceNext]_vars

(* ------------------------ cache-add, then a run ----------------------- *)

\* what cache-add is given for a book: the download (or the read of the
\* file) delivers image bytes, or the download fails
AddCalls(book) ==
    { [fn |-> "cache_add", isbn |-> BestIsbn[book], title |-> book.title,
       author |-> book.author, input |-> r] : r \in Replies("add") }

\* cache-add for a book, and afterwards a run on that book
AddInit ==
    /\ BatchInit
    /\ Len(books) = 1
    /\ mainPc = "idle"
    /\ cmd \in AddCalls(books[1])
    /\ out = <<>>

\* cli.cache_add: ClickException when the download fails or the bytes do
\* not open as an image (a small image only draws a warning), else
\* write_bytes, which may raise
CacheAdd ==
    /\ cmd.fn = "cache_add"
    /\ out = <<>>
    /\ LET cache_key == get_cache_key(cmd.isbn, cmd.title, cmd.author)
       IN  IF ~cmd.input.ok \/ ~cmd.input.body.decodes
           THEN out' = <<"error">> /\ UNCHANGED fs
           ELSE \/ /\ fs' = [fs EXCEPT ![cache_key] = cmd.input.body]
                   /\ out' = <<"saved">>
                \/ /\ out' = <<"error">>
                   /\ UNCHANGED fs
    /\ UNCHANGED << books, max_workers, has_callback, mainPc, submitted,
                    results, completed, progress, tpc, TaskVars, cmd >>

\* the next run: cli.main calls fetch_covers_for_books
StartRun ==
    /\ mainPc = "idle"
    /\ out # <<>>
    /\ mainPc' = "loop"
    /\ UNCHANGED << CallVars, fs, submitted, results, completed, progress,
                    tpc, TaskVars >>

AddNext ==
    \/ CacheAdd
    \/ StartRun
    \/ Next

AddSpec == AddInit /\ [][AddNext]_vars

(* ------------------------------ claims ------------------------------- *)

\* no other task of the batch has the cache key of t
Alone(t) == \A u \in Tasks : u # t => Key(u) # Key(t)

\* a file that decodes (header and pixel data), has both dimensions >= 200
\* and is not classified as a placeholder
Valid(img) ==
    /\ img.decodes /\ img.loads
    /\ img.w >= MinSize /\ img.h >= MinSize
    /\ img.colors >= MinColors

\* the lookups that apply to the book of t, in the order (a), (b), (c)
ExpectedLookups(t) ==
    (IF Isbn(t) # <<>> THEN <<"OL", "GB_ISBN">> ELSE <<>>) \o
    (IF Title(t) # <<>> THEN <<"GB_TITLE">> ELSE <<>>)

Stage(lookup) ==
    CASE lookup = "OL" -> "open_library"
      [] lookup = "GB_ISBN" -> "google_isbn"
      [] lookup = "GB_TITLE" -> "google_title"

SourceStages == {"open_library", "google_isbn", "google_title"}

NothingFound(t) == \A i \in 1..Len(calls[t]) : ~calls[t][i].found

\* the cache check of task t happens in this step
ChecksCache(t) == tpc[t] = "queued" /\ tpc'[t] # "queued"

\* the cache check of a task that finds a valid file
C1_HitStep ==
    \A t \in Tasks :
        (ChecksCache(t) /\ Valid(fs[Key(t)])) =>
            /\ tpc'[t] = "done"
            /\ future'[t] = Returned(Key(t))
            /\ cached'[t] = "hit"
            /\ calls'[t] = <<>>
            /\ fs' = fs

\* C1: a fetch_cover that finds a file at its cache path which decodes, has
\* both dimensions >= 200 and is no placeholder returns that path in the
\* same step, makes no lookup at either source, then or later, and leaves
\* the cache directory as it is.
C1_CacheHitAvoidsNetwork ==
    /\ [][C1_HitStep]_vars
    /\ [](\A t \in Tasks :
            cached[t] = "hit" =>
                /\ tpc[t] = "done"
                /\ calls[t] = <<>>
                /\ future[t] = Returned(Key(t)))

C1_Witness ==
    \E t \in Tasks :
        /\ cached[t] = "hit"
        /\ future[t] = Returned(Key(t))
        /\ fs[Key(t)] = Good("cache")

\* t went on to the fallback chain after the cache check
Proceeded(t) ==
    IF ExpectedLookups(t) = <<>>
    THEN tpc[t] = "done" /\ future[t] = Returned(NoPath)
    ELSE \/ calls[t] = <<>> /\ tpc[t] = Stage(ExpectedLookups(t)[1])
         \/ calls[t] # <<>> /\ calls[t][1].lookup = ExpectedLookups(t)[1]

\* the cache check of a task that finds an invalid file
C2_FindStep ==
    \A t \in Tasks :
        (ChecksCache(t) /\ fs[Key(t)] # Absent /\ ~Valid(fs[Key(t)])) =>
            /\ tpc'[t] = "evict"
            /\ cached'[t] = "invalid"
            /\ future'[t] = Pending

\* C2: a fetch_cover that finds a file at its cache path which is invalid
\* (does not decode, is under 200px in a dimension, or is a placeholder)
\* goes on to delete it; once it has, no file from before the run lies at
\* that path (so none is ever returned), and the task is in the fallback
\* chain: at its first applicable source or past it.
C2_CacheSelfHealing ==
    /\ [][C2_FindStep]_vars
    /\ [](\A t \in Tasks :
            (cached[t] = "invalid" /\ tpc[t] # "evict") =>
                /\ fs[Key(t)].src # "cache"
                /\ Proceeded(t))

C2_Witness ==
    \E t \in Tasks :
        /\ cached[t] = "invalid"
        /\ tpc[t] = "done"
        /\ future[t] = Returned(Key(t))
        /\ fs[Key(t)] = Good("net")

\* C3: the lookups a task has made are an initial part of (a) Open Library,
\* (b) Google Books by identifier, (c) Google Books by title and author,
\* restricted to those that apply to the book; every lookup but the last
\* returned nothing; a task still in the chain is at the next applicable
\* lookup; and a task past the chain either got bytes from its last lookup
\* or made every applicable lookup in vain.
C3_FallbackOrder ==
    \A t \in Tasks :
        LET L == calls[t]
            E == ExpectedLookups(t)
        IN  /\ Len(L) <= Len(E)
            /\ \A i \in 1..Len(L) :
                  /\ L[i].lookup = E[i]
                  /\ (i < Len(L) => ~L[i].found)
            /\ tpc[t] \in SourceStages =>
                  /\ Len(L) < Len(E)
                  /\ tpc[t] = Stage(E[Len(L) + 1])
                  /\ NothingFound(t)
            /\ (tpc[t] \in {"write", "verify", "reject"} \/
                (tpc[t] = "done" /\ cached[t] # "hit")) =>
                  \/ L # <<>> /\ L[Len(L)].found
                  \/ Len(L) = Len(E) /\ NothingFound(t)
            /\ tpc[t] \in {"write", "verify", "reject"} =>
                  L # <<>> /\ L[Len(L)].found

C3_Witness ==
    \E t \in Tasks :
        /\ tpc[t] = "write"
        /\ Len(calls[t]) = 3
        /\ calls[t][1] = [lookup |-> "OL", found |-> FALSE]
        /\ calls[t][2] = [lookup |-> "GB_ISBN", found |-> FALSE]
        /\ calls[t][3] = [lookup |-> "GB_TITLE", found |-> TRUE]

\* C4: for a task alone on its key, a returned path is the task's cache
\* path and a valid file lies there (from the return on); the file just
\* written is sent to deletion only when it is invalid; and a task that
\* returned nothing leaves no file at its cache path.
C4_ReturnedPathsValidated ==
    \A t \in Tasks :
        Alone(t) =>
            /\ (future[t].state = "returned" /\ future[t].path # NoPath) =>
                  /\ future[t].path = Key(t)
                  /\ Valid(fs[Key(t)])
            /\ tpc[t] = "verify" => fs[Key(t)] # Absent
            /\ tpc[t] = "reject" => ~Valid(fs[Key(t)])
            /\ (tpc[t] = "done" /\ future[t] = Returned(NoPath)) =>
                  fs[Key(t)] = Absent

C4_Witness ==
    \E t, u \in Tasks :
        /\ Alone(t) /\ Alone(u)
        /\ cached[t] = "miss"
        /\ future[t] = Returned(Key(t))
        /\ fs[Key(t)] = Good("net")
        /\ tpc[u] = "reject"
        /\ fs[Key(u)] = Flat("net")

\* C5: a task alone on its key whose applicable lookups all returned
\* nothing (or that has none) returns nothing and no file lies at its cache
\* path afterwards, also when it evicted one; and no file outside the
\* batch's cache paths is created or removed.
C5_NothingFoundWritesNothing ==
    /\ \A t \in Tasks :
          ( /\ Alone(t)
            /\ tpc[t] = "done"
            /\ cached[t] # "hit"
            /\ Len(calls[t]) = Len(ExpectedLookups(t))
            /\ NothingFound(t) ) =>
                /\ future[t] = Returned(NoPath)
                /\ fs[Key(t)] = Absent
    /\ \A k \in AllKeys \ BatchKeys(books) :
          fs[k] = IF k = OtherKey THEN Good("cache") ELSE Absent

C5_Witness ==
    \E t \in Tasks :
        /\ Alone(t)
        /\ cached[t] = "invalid"
        /\ tpc[t] = "done"
        /\ Len(calls[t]) = 3
        /\ NothingFound(t)
        /\ future[t] = Returned(NoPath)

\* C6: when fetch_covers_for_books has returned, the list holds exactly N
\* outcomes, one per book; the outcome of a book whose task raised is
\* (book, no path), that of every other book is what its fetch_cover
\* returned.
C6_BatchIsolation ==
    mainPc = "returned" =>
        /\ Len(results) = N
        /\ \A t \in Tasks :
              \E i \in 1..Len(results) :
                  /\ results[i].book = t
                  /\ results[i].path =
                        IF future[t].state = "raised" THEN NoPath
                        ELSE future[t].path
        /\ \A t \in Tasks : future[t].state \in {"returned", "raised"}

C6_Witness ==
    /\ mainPc = "returned"
    /\ \E t, u \in Tasks :
          /\ future[t].state = "raised"
          /\ future[u] = Returned(Key(u))
          /\ \E i, j \in 1..Len(results) :
                /\ results[i] = [book |-> t, path |-> NoPath]
                /\ results[j] = [book |-> u, path |-> Key(u)]

\* C7: with a callback supplied, its k-th call receives (k, N); it is called
\* at most N times, and exactly N times by the time the call returns (never
\* for N = 0).
C7_ProgressMonotonic ==
    has_callback =>
        /\ Len(progress) <= N
        /\ \A k \in 1..Len(progress) :
              /\ progress[k].completed = k
              /\ progress[k].total = N
        /\ mainPc = "returned" => Len(progress) = N

C7_Witness ==
    /\ has_callback
    /\ mainPc = "returned"
    /\ Len(progress) = 2
    /\ results[1].book = 2

\* C8 as stated: when the k-th callback runs, exactly k-1 outcomes have been
\* recorded.
C8_CallbackBeforeRecord ==
    has_callback =>
        \A k \in 1..Len(progress) : progress[k].recorded = k - 1

\* C8 amended: the outcome is recorded first; when the k-th callback runs,
\* exactly k outcomes have been recorded.
C8_RecordBeforeCallback ==
    has_callback =>
        \A k \in 1..Len(progress) : progress[k].recorded = k

C8_Witness ==
    /\ has_callback
    /\ mainPc = "loop"
    /\ N = 2
    /\ Len(progress) = 1
    /\ progress[1].recorded = 1

\* C9: the tasks created are those of the books submitted so far, one per
\* book, all N once the call has returned; and at no time are more than
\* max_workers of them running.
C9_BoundedParallelism ==
    /\ NumRunning <= max_workers
    /\ submitted <= N
    /\ { t \in Tasks : tpc[t] # "unsubmitted" } = 1..submitted
    /\ mainPc = "returned" => submitted = N

C9_Witness ==
    /\ NumRunning = max_workers
    /\ \E t \in Tasks : tpc[t] = "queued"

\* C10: under fair scheduling the call returns; and whenever it has
\* returned, every task is finished and the list holds an outcome for
\* every book.
C10_ReturnsWhenAllDone ==
    /\ <>(mainPc = "returned")
    /\ [](mainPc = "returned" =>
            /\ \A t \in Tasks : tpc[t] = "done" /\ t \in Recorded
            /\ Len(results) = N)

C10_Witness ==
    /\ mainPc = "returned"
    /\ N = 2
    /\ max_workers = 1
    /\ \A t \in Tasks : cached[t] # "hit"

(* ------------ claims on sanitize_filename and _get_cache_key ---------- *)

\* C11: two calls of _get_cache_key that differ in the author only, with an
\* identifier and a title both present, return the same key.
C11_AuthorIndependence ==
    ( /\ cmd.fn = "_get_cache_key"
      /\ Len(out) = 2
      /\ cmd.isbn # <<>>
      /\ cmd.title # <<>> ) =>
        /\ out[1].author # out[2].author
        /\ out[1].key = out[2].key

C11_Witness ==
    /\ cmd.fn = "_get_cache_key"
    /\ cmd.isbn = <<"9">>
    /\ cmd.title = <<"A", " ", "b">>
    /\ Len(out) = 2
    /\ out[1].author = <<"x">>
    /\ out[2].author = <<>>
    /\ out[2].key = <<"9", "-", "a", "-", "b">>

\* the title without its unsafe characters
Kept(title) == SelectSeq(title, LAMBDA c : c \notin UnsafeChars)

Separators == Whitespace \cup {"-"}

RECURSIVE SplitWords(_)
\* the maximal runs of characters of s that are no separators
SplitWords(s) ==
    IF s = <<>> THEN <<>>
    ELSE IF Head(s) \in Separators THEN SplitWords(Tail(s))
    ELSE LET n == CHOOSE n \in 1..Len(s) :
                     /\ \A i \in 1..n : s[i] \notin Separators
                     /\ (n = Len(s) \/ s[n + 1] \in Separators)
         IN  << SubSeq(s, 1, n) >> \o SplitWords(SubSeq(s, n + 1, Len(s)))

RECURSIVE JoinWords(_)
JoinWords(ws) ==
    IF ws = <<>> THEN <<>>
    ELSE IF Len(ws) = 1 THEN ws[1]
    ELSE ws[1] \o <<"-">> \o JoinWords(Tail(ws))

\* the words of the title, unsafe characters removed, joined by single
\* hyphens, in lower case
Slug(title) ==
    LET joined == JoinWords(SplitWords(Kept(title)))
    IN  [i \in 1..Len(joined) |-> Lower(joined[i])]

\* s cut to at most n characters, and further so that no hyphen ends it
CutTo(s, n) ==
    IF Len(s) <= n THEN s
    ELSE LET m == CHOOSE m \in 0..n :
                     /\ (m = 0 \/ s[m] # "-")
                     /\ \A k \in (m + 1)..n : s[k] = "-"
         IN  SubSeq(s, 1, m)

HexDigits ==
    {"0", "1", "2", "3", "4", "5", "6", "7", "8", "9",
     "a", "b", "c", "d", "e", "f"}

\* "9780743273565-the-great-gatsby"
GatsbyKey ==
    GatsbyIsbn \o
    <<"-", "t", "h", "e", "-", "g", "r", "e", "a", "t", "-",
      "g", "a", "t", "s", "b", "y">>

\* C12: the key of an identifier and a title is "{identifier}-{slug}", the
\* slug being the title's words (unsafe characters removed, split at
\* whitespace and hyphens) joined by single hyphens, in lower case, cut to
\* at most 50 characters with no hyphen at the end; the key of an identifier
\* alone is the identifier; any other key is the first 16 characters of the
\* hex digest of "{title}-{author}", all lowercase hex digits; and
\* sanitize_filename gives the slug cut to max_length.
C12_KeyShape ==
    /\ (cmd.fn = "_get_cache_key" /\ out # <<>>) =>
          LET key == out[1].key
          IN  /\ (cmd.isbn # <<>> /\ cmd.title # <<>>) =>
                    /\ key = cmd.isbn \o <<"-">> \o
                             CutTo(Slug(cmd.title), KeyMaxLength)
                    /\ Len(key) <= Len(cmd.isbn) + 1 + KeyMaxLength
                    /\ (Len(key) > Len(cmd.isbn) + 1 => key[Len(key)] # "-")
              /\ (cmd.isbn # <<>> /\ cmd.title = <<>>) => key = cmd.isbn
              /\ cmd.isbn = <<>> =>
                    /\ Len(key) = 16
                    /\ \A i \in 1..Len(key) : key[i] \in HexDigits
                    /\ key = SubSeq(Md5Hex(cmd.title \o <<"-">> \o cmd.author),
                                    1, 16)
              /\ (cmd.isbn = GatsbyIsbn /\ cmd.title = Gatsby) =>
                    key = GatsbyKey
    /\ (cmd.fn = "sanitize_filename" /\ out # <<>>) =>
          out[1] = CutTo(Slug(cmd.title), cmd.max_length)

C12_Witness ==
    /\ cmd.fn = "_get_cache_key"
    /\ cmd.isbn = <<"9">>
    /\ cmd.title = LongTitle
    /\ out # <<>>
    /\ out[1].key = <<"9", "-">> \o Rep("a", KeyMaxLength - 1)

\* C13: sanitize_filename applied to its own result, with the same
\* max_length, returns that result.
C13_SanitizeIdempotent ==
    (cmd.fn = "sanitize_filename" /\ Len(out) = 2) => out[2] = out[1]

C13_Witness ==
    /\ cmd.fn = "sanitize_filename"
    /\ cmd.title = <<"A", " ", "b">>
    /\ cmd.max_length = 2
    /\ out = << <<"a">>, <<"a">> >>

(* --------------------- claims on the source clients ------------------- *)

\* a request of the Open Library client fails (connection, timeout, status,
\* JSON), or the image it fetched does not decode
ol_failure(resp) ==
    \/ resp.api = "error"
    \/ /\ resp.api = "ok"
       /\ \/ ~resp.reply.ok
          \/ resp.reply.body.len > MinBytes /\ ~resp.reply.body.decodes

\* the image request of a candidate fails, or its image does not decode
item_failure(item) ==
    /\ item.object
    /\ item.link
    /\ \/ ~item.reply.ok
       \/ /\ item.reply.body.len > MinBytes
          /\ \/ ~item.reply.body.decodes
             \/ ~too_small(item.reply.body, MinSize) /\ ~item.reply.body.loads

\* the items try_search looks at
Looked(resp) ==
    SubSeq(resp.items, 1,
           IF Len(resp.items) < MaxResults THEN Len(resp.items) ELSE MaxResults)

\* the search request fails, or the loop comes to a malformed item
search_failure(resp) ==
    \/ ~resp.ok
    \/ /\ resp.totalItems # 0
       /\ \E i \in 1..Len(Looked(resp)) :
             /\ ~Looked(resp)[i].object
             /\ \A j \in 1..(i - 1) : ~passes(Looked(resp)[j], MinSize)

\* a task raises only out of write_bytes, after a lookup returned bytes
RaisesOnlyAtWrite ==
    \A t \in Tasks :
        /\ tpc[t] \in SourceStages => future[t] = Pending
        /\ future[t].state = "raised" =>
              /\ calls[t] # <<>>
              /\ calls[t][Len(calls[t])].found

\* C14 as stated: a client in which a request or a decode failed returns
\* nothing, and no task raises because of it.
C14_FailureReturnsNothing ==
    /\ (cmd.fn = "_fetch_from_open_library" /\ out # <<>>) =>
          (ol_failure(cmd.resp) => out[1].data = NoBytes)
    /\ (cmd.fn = "try_search" /\ out # <<>>) =>
          ( ( \/ search_failure(cmd.resp)
              \/ \E i \in 1..Len(out[1].requests) :
                    item_failure(cmd.resp.items[out[1].requests[i]]) )
            => out[1].data = NoBytes )
    /\ RaisesOnlyAtWrite

\* C14 amended: the Open Library client returns nothing when a request of
\* it fails or its image does not decode; try_search returns nothing when
\* the search request fails or the answer is malformed; a candidate whose
\* image request or decoding fails is skipped, that is, try_search returns
\* what it returns on the page without the failing candidates; and no task
\* raises because of any of these.
C14_FailuresContained ==
    /\ (cmd.fn = "_fetch_from_open_library" /\ out # <<>>) =>
          (ol_failure(cmd.resp) => out[1].data = NoBytes)
    /\ (cmd.fn = "try_search" /\ out # <<>>) =>
          /\ search_failure(cmd.resp) => out[1].data = NoBytes
          /\ (cmd.resp.ok /\ cmd.resp.totalItems # 0) =>
                out[1].data =
                    first_valid(SelectSeq(Looked(cmd.resp),
                                          LAMBDA it : ~item_failure(it)),
                                MinSize)
    /\ RaisesOnlyAtWrite

C14_Witness ==
    /\ cmd.fn = "try_search"
    /\ cmd.resp.ok
    /\ cmd.resp.totalItems = 2
    /\ cmd.resp.items = << [object |-> TRUE, link |-> TRUE, reply |-> NoReply],
                           GoodItem("net") >>
    /\ out = << [data |-> Good("net"), requests |-> <<1, 2>>] >>

\* the page try_search is applied to is well formed and not empty
WellFormed(resp) ==
    /\ resp.ok
    /\ resp.totalItems # 0
    /\ \A i \in 1..Len(Looked(resp)) : Looked(resp)[i].object

\* C18's candidates: the image link fetches, decodes, has both dimensions
\* >= 200 and is no placeholder
Candidate(item) ==
    /\ item.link
    /\ item.reply.ok
    /\ Valid(item.reply.body)

\* ... and has more than 1000 bytes
LargeCandidate(item) == Candidate(item) /\ item.reply.body.len > MinBytes

\* the least index of the looked-at items in P, 0 if there is none
Least(P) == IF P = {} THEN 0 ELSE CHOOSE i \in P : \A j \in P : i <= j

\* try_search returned the image of item `first` (nothing if 0) and
\* requested, in order, the images of the linked items up to it (of all the
\* looked-at items if 0)
Selects(resp, first, result) ==
    LET L    == Looked(resp)
        last == IF first = 0 THEN Len(L) ELSE first
        req  == result.requests
    IN  /\ result.data = IF first = 0 THEN NoBytes ELSE L[first].reply.body
        /\ { req[k] : k \in 1..Len(req) } = { i \in 1..last : L[i].link }
        /\ \A k \in 1..(Len(req) - 1) : req[k] < req[k + 1]
        /\ \A k \in 1..Len(req) : req[k] <= MaxResults

\* C18 as stated: what is returned is the image of the first of the first 5
\* items that fetches, decodes, is at least 200 by 200 and no placeholder.
C18_SelectsFirstValid ==
    (cmd.fn = "try_search" /\ out # <<>> /\ WellFormed(cmd.resp)) =>
        Selects(cmd.resp,
                Least({ i \in 1..Len(Looked(cmd.resp)) :
                          Candidate(Looked(cmd.resp)[i]) }),
                out[1])

\* C18 amended: what is returned is the image of the first of the first 5
\* items that fetches, has more than 1000 bytes, decodes, is at least 200 by
\* 200 and no placeholder (nothing if there is none); the images requested
\* are those of the items with a link up to that item, in order, never one
\* after the fifth; and a failed search or one with totalItems 0 returns
\* nothing and requests no image.
C18_SelectsFirstLargeValid ==
    (cmd.fn = "try_search" /\ out # <<>>) =>
        /\ WellFormed(cmd.resp) =>
              Selects(cmd.resp,
                      Least({ i \in 1..Len(Looked(cmd.resp)) :
                                LargeCandidate(Looked(cmd.resp)[i]) }),
                      out[1])
        /\ (~cmd.resp.ok \/ cmd.resp.totalItems = 0) =>
              out[1] = [data |-> NoBytes, requests |-> <<>>]

C18_Witness ==
    /\ cmd.fn = "try_search"
    /\ Len(cmd.resp.items) = 6
    /\ ~cmd.resp.items[1].link
    /\ ~cmd.resp.items[2].reply.ok
    /\ \A i \in 3..5 : cmd.resp.items[i].reply.body = Flat("net")
    /\ cmd.resp.items[6] = GoodItem("net")
    /\ out = << [data |-> NoBytes, requests |-> <<2, 3, 4, 5>>] >>

(* ------------------- further claims on fetch_cover -------------------- *)

\* C17: no lookup occurs twice among the lookups a task has made, so each
\* of the three is made at most once per fetch_cover call (and per book, a
\* book having one task), and none is made again after it failed.
C17_SingleAttempt ==
    \A t \in Tasks :
        /\ Len(calls[t]) <= 3
        /\ \A i, j \in 1..Len(calls[t]) :
              i # j => calls[t][i].lookup # calls[t][j].lookup

C17_Witness ==
    \E t \in Tasks :
        /\ tpc[t] = "done"
        /\ cached[t] = "miss"
        /\ calls[t] = << Lookup("OL", NoBytes), Lookup("GB_ISBN", NoBytes),
                         Lookup("GB_TITLE", NoBytes) >>

\* a task alone on its key that has written its file: an invalid file is
\* sent to deletion, the deletion ends the call with nothing returned and
\* no file at the path, and no further lookup is made
C19_RejectStep ==
    \A t \in Tasks :
        (Alone(t) /\ tpc[t] \in {"verify", "reject"} /\ tpc'[t] # tpc[t]) =>
            /\ calls'[t] = calls[t]
            /\ (tpc[t] = "verify" /\ ~Valid(fs[Key(t)])) =>
                  tpc'[t] = "reject" /\ fs' = fs
            /\ tpc[t] = "reject" =>
                  /\ tpc'[t] = "done"
                  /\ future'[t] = Returned(NoPath)
                  /\ fs'[Key(t)] = Absent

\* C19: when the bytes a lookup returned fail the check of the written file
\* (size, placeholder, or pixel data that does not load), the call deletes
\* the file and returns nothing; the lookup that returned the bytes stays
\* the last one made, whatever lookups were left in the chain, and no file
\* lies at the cache path afterwards.
C19_RejectEndsResolution ==
    /\ [][C19_RejectStep]_vars
    /\ [](\A t \in Tasks :
            ( /\ Alone(t)
              /\ tpc[t] = "done"
              /\ future[t] = Returned(NoPath)
              /\ \E i \in 1..Len(calls[t]) : calls[t][i].found ) =>
                /\ calls[t][Len(calls[t])].found
                /\ \A i \in 1..(Len(calls[t]) - 1) : ~calls[t][i].found
                /\ fs[Key(t)] = Absent)

C19_Witness ==
    \E t \in Tasks :
        /\ Alone(t)
        /\ Len(ExpectedLookups(t)) = 3
        /\ calls[t] = << Lookup("OL", Flat("net")) >>
        /\ tpc[t] = "done"
        /\ future[t] = Returned(NoPath)
        /\ fs[Key(t)] = Absent

\* two tasks of the batch with the same cache key
SameKey(t, u) == t # u /\ Key(t) = Key(u)

\* C15 as stated: once two tasks on one cache key have both finished, with
\* no error of write_bytes in either, every path either of them returned
\* names a file that exists and is valid.
C15_SameKeyRaceBenign ==
    \A t, u \in Tasks :
        ( /\ SameKey(t, u)
          /\ tpc[t] = "done" /\ future[t].state = "returned"
          /\ tpc[u] = "done" /\ future[u].state = "returned" ) =>
            (future[t].path # NoPath => Valid(fs[future[t].path]))

(* -------------------------- claim on cache-add ------------------------ *)

\* C16 as stated: after cache-add has saved a cover for a book, the
\* fetch_cover of the next run for that book is a cache hit: it returns the
\* path of the added file, makes no lookup and does not delete the file.
C16_AddedCoverIsUsed ==
    \A t \in Tasks :
        (cmd.fn = "cache_add" /\ out = <<"saved">> /\ cached[t] # "unchecked") =>
            /\ cached[t] = "hit"
            /\ future[t] = Returned(Key(t))
            /\ calls[t] = <<>>
            /\ fs[Key(t)] = cmd.input.body

=============================================================================
